---- MODULE Spec2Model ----
(***************************************************************************)
(* Terminal cwd endpoint of jupyterlab_terminal_show_in_file_browser:      *)
(* TerminalCwdHandler.get and the process-tree cwd resolution behind it    *)
(* (handlers.py).                                                           *)
(*                                                                          *)
(* Python values.  A str (or bytes) is a sequence of one-character         *)
(* strings; a PID inside a path is kept as one token.  None is the         *)
(* sequence None below, whose only element is not a character, so no str   *)
(* equals it.  A call's outcome is a record [exc, val]: exc = "ok" and the *)
(* returned value, or the class of the exception raised.                   *)
(***************************************************************************)
EXTENDS Integers, Sequences, FiniteSets, TLC

----------------------------------------------------------------------------
(* Bounds of the model *)

\* The PIDs of the model are RootPid..MaxPid.
MaxPid == 102

\* Interpreter recursion limit (sys.getrecursionlimit(), 1000 by default),
\* scaled down: a call of _collect_process_tree at this depth raises
\* RecursionError.  Larger than the depth of any tree over RootPid..MaxPid.
RecursionLimit == 3

\* The PID handed to _get_process_cwd (ptyproc.pid).
RootPid == 100

Pids == RootPid..MaxPid

----------------------------------------------------------------------------
(* Python values and exceptions *)

None == <<"<None>">>

Ret(v) == [exc |-> "ok", val |-> v]

Raise(c) == [exc |-> c, val |-> None]

\* Python truthiness of an Optional[str]: `if cwd:` / `if comm`.
Truthy(v) == v # None /\ v # <<>>

\* Base class of each built-in exception class that the calls can raise.
ExcBase(c) ==
    CASE c = "FileNotFoundError"  -> "OSError"
      [] c = "PermissionError"    -> "OSError"
      [] c = "ProcessLookupError" -> "OSError"
      [] c = "OSError"            -> "Exception"
      [] c = "TimeoutExpired"     -> "SubprocessError"
      [] c = "SubprocessError"    -> "Exception"
      [] c = "RecursionError"     -> "RuntimeError"
      [] c = "RuntimeError"       -> "Exception"
      [] c = "Exception"          -> "BaseException"
      [] OTHER                    -> "BaseException"

RECURSIVE IsInstance(_, _)
IsInstance(c, h) ==
    IF c = h THEN TRUE
    ELSE IF c = "BaseException" THEN FALSE
    ELSE IsInstance(ExcBase(c), h)

\* try: body / except <classes>: pass, followed by `after`.
TryExcept(body, classes, after) ==
    IF body.exc = "ok" THEN body
    ELSE IF \E h \in classes : IsInstance(body.exc, h) THEN after
    ELSE body

----------------------------------------------------------------------------
(* str / bytes methods *)

StartsWith(s, prefix) ==
    /\ Len(s) >= Len(prefix)
    /\ SubSeq(s, 1, Len(prefix)) = prefix

\* s[n:]
From(s, n) == SubSeq(s, n + 1, Len(s))

Whitespace == {" ", "\n", "\t"}

RECURSIVE LStrip(_)
LStrip(s) ==
    IF s # <<>> /\ Head(s) \in Whitespace THEN LStrip(Tail(s)) ELSE s

RECURSIVE RStrip(_)
RStrip(s) ==
    IF s # <<>> /\ s[Len(s)] \in Whitespace
    THEN RStrip(SubSeq(s, 1, Len(s) - 1))
    ELSE s

\* str.strip()
Strip(s) == RStrip(LStrip(s))

\* s.split(sep): the pieces between the separators, empty pieces included.
RECURSIVE SplitOn(_, _, _)
SplitOn(s, sep, cur) ==
    IF s = <<>> THEN <<cur>>
    ELSE IF Head(s) = sep THEN <<cur>> \o SplitOn(Tail(s), sep, <<>>)
    ELSE SplitOn(Tail(s), sep, Append(cur, Head(s)))

Split(s, sep) == SplitOn(s, sep, <<>>)

\* os.path.basename: what follows the last "/".
Basename(s) ==
    LET parts == Split(s, "/") IN parts[Len(parts)]

\* bytes.decode("utf-8", errors="replace"): a byte that is no valid UTF-8
\* becomes U+FFFD.
Decode(b) ==
    [i \in 1..Len(b) |-> IF b[i] = "\\xff" THEN "\\ufffd" ELSE b[i]]

\* os.path.isabs on POSIX.
IsAbs(s) == s # None /\ Len(s) > 0 /\ s[1] = "/"

\* The first element of a sequence of pieces that starts with `prefix`, as
\* the for loops over entries / lines find it; 0 when there is none.
FirstWith(pieces, prefix) ==
    LET hits == {i \in 1..Len(pieces) : StartsWith(pieces[i], prefix)}
    IN  IF hits = {} THEN 0
        ELSE CHOOSE i \in hits : \A j \in hits : i <= j

----------------------------------------------------------------------------
(* cwd strategies: each takes what the operating system answers for the PID *)

\* Variant of _get_cwd_linux: the handler is `except PermissionError:`.
_get_cwd_linux_PermissionOnly(link) ==
    TryExcept(IF link.exists THEN link.readlink ELSE Ret(None),
              {"PermissionError"},
              Ret(None))

\* link = [exists, readlink]: os.path.exists("/proc/<pid>/cwd") and the
\* outcome of os.readlink on it.
_get_cwd_linux(link) ==
    TryExcept(IF link.exists THEN link.readlink ELSE Ret(None),
              {"OSError", "PermissionError"},
              Ret(None))

\* env = [exists, read]: os.path.exists("/proc/<pid>/environ") and the
\* outcome of opening and reading it (bytes).
_get_pwd_from_environ(env) ==
    LET body ==
            IF ~env.exists THEN Ret(None)
            ELSE IF env.read.exc # "ok" THEN env.read
            ELSE LET entries == Split(env.read.val, "\\x00")
                     i == FirstWith(entries, <<"P", "W", "D", "=">>)
                 IN  IF i = 0 THEN Ret(None)
                     ELSE Ret(Decode(From(entries[i], 4)))
    IN  TryExcept(body, {"OSError", "PermissionError"}, Ret(None))

\* lsof: the outcome of subprocess.run(["lsof", "-a", "-p", pid, "-d",
\* "cwd", "-Fn"], timeout=5): a record [returncode, stdout] or an exception.
_get_cwd_macos(lsof) ==
    LET body ==
            IF lsof.exc # "ok" THEN lsof
            ELSE IF lsof.val.returncode # 0 THEN Ret(None)
            ELSE LET lines == Split(lsof.val.stdout, "\n")
                     i == FirstWith(lines, <<"n">>)
                 IN  IF i = 0 THEN Ret(None) ELSE Ret(From(lines[i], 1))
    IN  TryExcept(body, {"Exception"}, Ret(None))

\* The strategies _try_get_cwd runs for one PID.  view = [link, env, lsof].
\* The result carries `used`: the strategies invoked, in order, each with
\* what it returned.
Invoked(name, r) == [s |-> name, val |-> r.val]

\* Variant of LinuxMethods: the link is read a second time before the
\* environment is.
LinuxMethodsRetry(view) ==
    LET r1 == _get_cwd_linux(view.link) IN
    IF r1.exc # "ok"
    THEN [exc |-> r1.exc, val |-> None, used |-> <<Invoked("fast", r1)>>]
    ELSE IF r1.val = None
    THEN LET r2 == _get_pwd_from_environ(view.env)
         IN  [exc |-> r2.exc, val |-> r2.val,
              used |-> <<Invoked("fast", r1), Invoked("fast", r1),
                         Invoked("environ", r2)>>]
    ELSE [exc |-> "ok", val |-> r1.val, used |-> <<Invoked("fast", r1)>>]

LinuxMethods(view) ==
    LET r1 == _get_cwd_linux(view.link) IN
    IF r1.exc # "ok"
    THEN [exc |-> r1.exc, val |-> None, used |-> <<Invoked("fast", r1)>>]
    ELSE IF r1.val = None
    THEN LET r2 == _get_pwd_from_environ(view.env)
         IN  [exc |-> r2.exc, val |-> r2.val,
              used |-> <<Invoked("fast", r1), Invoked("environ", r2)>>]
    ELSE [exc |-> "ok", val |-> r1.val, used |-> <<Invoked("fast", r1)>>]

MacosMethod(view) ==
    LET r == _get_cwd_macos(view.lsof)
    IN  [exc |-> r.exc, val |-> r.val, used |-> <<Invoked("lsof", r)>>]

\* Variant of _try_get_cwd: darwin too falls back to the environment.
_try_get_cwd_DarwinEnviron(plat, view) ==
    IF plat = "linux" THEN LinuxMethods(view)
    ELSE IF plat = "darwin"
    THEN LET r == MacosMethod(view) IN
         IF r.exc = "ok" /\ r.val = None
         THEN LET r2 == _get_pwd_from_environ(view.env)
              IN  [exc |-> r2.exc, val |-> r2.val,
                   used |-> r.used \o <<Invoked("environ", r2)>>]
         ELSE r
    ELSE LinuxMethods(view)

_try_get_cwd(plat, view) ==
    IF plat = "linux" THEN LinuxMethods(view)
    ELSE IF plat = "darwin" THEN MacosMethod(view)
    ELSE LinuxMethods(view)

----------------------------------------------------------------------------
(* Process primitives used by the tree walk *)

\* Variant of known_shells: the set literal lacks 'sh' and 'tcsh'.
known_shells_Fewer ==
    { <<"b", "a", "s", "h">>, <<"z", "s", "h">>, <<"f", "i", "s", "h">>,
      <<"d", "a", "s", "h">>, <<"k", "s", "h">>, <<"c", "s", "h">> }

known_shells ==
    { <<"b", "a", "s", "h">>, <<"z", "s", "h">>, <<"f", "i", "s", "h">>,
      <<"s", "h">>, <<"d", "a", "s", "h">>, <<"k", "s", "h">>,
      <<"t", "c", "s", "h">>, <<"c", "s", "h">> }

\* view = [commfile, ps]: commfile = [exists, read] for "/proc/<pid>/comm",
\* ps = the outcome of subprocess.run(["ps", "-p", pid, "-o", "comm="]).
_get_process_comm(plat, view) ==
    LET body ==
            IF plat = "linux"
            THEN IF ~view.commfile.exists THEN Ret(None)
                 ELSE IF view.commfile.read.exc # "ok" THEN view.commfile.read
                 ELSE Ret(Strip(view.commfile.read.val))
            ELSE IF view.ps.exc # "ok" THEN view.ps
                 ELSE IF view.ps.val.returncode = 0
                         /\ Strip(view.ps.val.stdout) # <<>>
                 THEN Ret(Basename(Strip(view.ps.val.stdout)))
                 ELSE Ret(None)
    IN  TryExcept(body, {"Exception"}, Ret(None))

\* view = [childfile, pgrep]: childfile = [exists, read] for
\* "/proc/<pid>/task/<pid>/children", pgrep = the outcome of
\* subprocess.run(["pgrep", "-P", pid]).  Both list PIDs in decimal; the
\* model keeps each PID as one token, so int() of a token is the PID.
_get_direct_children(plat, view) ==
    LET fromFile ==
            IF plat = "linux" /\ view.childfile.exists
            THEN view.childfile.read
            ELSE Ret(<<>>)
        body ==
            IF fromFile.exc # "ok" THEN fromFile
            ELSE IF fromFile.val # <<>> THEN fromFile
            ELSE IF view.pgrep.exc # "ok" THEN view.pgrep
            ELSE IF view.pgrep.val.returncode = 0
                    /\ view.pgrep.val.stdout # <<>>
            THEN Ret(view.pgrep.val.stdout)
            ELSE Ret(<<>>)
    IN  TryExcept(body, {"Exception"}, Ret(<<>>))

\* Variant of _collect_process_tree: the recursive calls pass depth, not
\* depth + 1.
_collect_process_tree_SameDepth(plat, pid, depth, commView, childView) ==
    LET c == _get_process_comm(plat, commView)
        name == c.val
        is_shell == IF Truthy(name) THEN name \in known_shells ELSE FALSE
        k == _get_direct_children(plat, childView)
    IN  IF c.exc # "ok" THEN [exc |-> c.exc, node |-> <<>>, calls |-> <<>>]
        ELSE IF k.exc # "ok"
        THEN [exc |-> k.exc,
              node |-> <<[pid |-> pid, depth |-> depth,
                          is_shell |-> is_shell, comm |-> name]>>,
              calls |-> <<>>]
        ELSE [exc |-> "ok",
              node |-> <<[pid |-> pid, depth |-> depth,
                          is_shell |-> is_shell, comm |-> name]>>,
              calls |-> [i \in 1..Len(k.val) |->
                            [pid |-> k.val[i], depth |-> depth]]]

\* One invocation of _collect_process_tree(pid, depth, results, known_shells),
\* its recursive calls left to the caller: the node it appends and the calls
\* it makes next, in order.
_collect_process_tree(plat, pid, depth, commView, childView) ==
    LET c == _get_process_comm(plat, commView)
        name == c.val
        is_shell == IF Truthy(name) THEN name \in known_shells ELSE FALSE
        k == _get_direct_children(plat, childView)
    IN  IF c.exc # "ok" THEN [exc |-> c.exc, node |-> <<>>, calls |-> <<>>]
        ELSE IF k.exc # "ok"
        THEN [exc |-> k.exc,
              node |-> <<[pid |-> pid, depth |-> depth,
                          is_shell |-> is_shell, comm |-> name]>>,
              calls |-> <<>>]
        ELSE [exc |-> "ok",
              node |-> <<[pid |-> pid, depth |-> depth,
                          is_shell |-> is_shell, comm |-> name]>>,
              calls |-> [i \in 1..Len(k.val) |->
                            [pid |-> k.val[i], depth |-> depth + 1]]]

----------------------------------------------------------------------------
(* Candidate order: all_processes.sort(key=lambda x: (-x[1], not x[2])) *)

\* Variant of SortKey: the key is (x[1], not x[2]), shallowest first.
SortKeyShallowFirst(x) == <<x.depth, IF x.is_shell THEN 0 ELSE 1>>

\* The key of one (pid, depth, is_shell, comm) tuple; False < True.
SortKey(x) == <<0 - x.depth, IF x.is_shell THEN 0 ELSE 1>>

\* Tuple comparison k1 < k2.
KeyLess(k1, k2) == k1[1] < k2[1] \/ (k1[1] = k2[1] /\ k1[2] < k2[2])

RECURSIVE InsertSorted(_, _)
InsertSorted(sorted, x) ==
    IF sorted = <<>> THEN <<x>>
    ELSE IF KeyLess(SortKey(x), SortKey(Head(sorted))) THEN <<x>> \o sorted
    ELSE <<Head(sorted)>> \o InsertSorted(Tail(sorted), x)

\* list.sort is stable: equal keys keep their order.
RECURSIVE ListSort(_)
ListSort(s) ==
    IF s = <<>> THEN <<>>
    ELSE InsertSorted(ListSort(SubSeq(s, 1, Len(s) - 1)), s[Len(s)])

----------------------------------------------------------------------------
(* State *)

VARIABLES
    platform,       \* sys.platform: "linux", "darwin" or "other"
    children,       \* operating system: the child PIDs of each PID, in order
    comm,           \* operating system: the command name of each PID
    settings,       \* self.settings: the terminal manager behind the handler
    terminal_name,  \* the terminal name of the request
    pc,             \* where the request is
    stack,          \* pending calls of _collect_process_tree: (pid, depth)
    all_processes,  \* the list of (pid, depth, is_shell, comm)
    idx,            \* position of the for loop over all_processes
    calls,          \* the PIDs _try_get_cwd was called with, in order
    last,           \* the last call of _try_get_cwd and what it returned
    strat,          \* the strategies invoked so far: <<strategy, pid>>
    cwd,            \* what _get_process_cwd returned
    exc,            \* the exception that left _get_process_cwd / the try body
    responses,      \* what the handler sent: set_status and finish
    core,           \* how many times get called _get_process_cwd
    visit,          \* the last call of _collect_process_tree: what hit it
    treeChanged     \* a primitive of the walk answered other than the tree

vars == <<platform, children, comm, settings, terminal_name, pc, stack,
          all_processes, idx, calls, last, strat, cwd, exc, responses, core,
          visit, treeChanged>>

osVars == <<platform, children, comm, settings, terminal_name>>

----------------------------------------------------------------------------
(* What the operating system answers *)

Platforms == {"linux", "darwin", "other"}

\* A process at the moment of a call: there, exiting during the call, or
\* not there.
ProcStates == {"alive", "vanishing", "gone"}

\* A helper tool (ps, pgrep, lsof): runs, is not installed, or exceeds
\* timeout=5.
ToolOutcomes == {"ok", "missing", "timeout"}

ToolRun(tool, completed) ==
    IF tool = "missing" THEN Raise("FileNotFoundError")
    ELSE IF tool = "timeout" THEN Raise("TimeoutExpired")
    ELSE Ret(completed)

CommView(p, st, tool) ==
    [commfile |->
        [exists |-> st # "gone",
         read   |-> IF st = "alive" THEN Ret(comm[p] \o <<"\n">>)
                    ELSE Raise("ProcessLookupError")],
     ps |->
        ToolRun(tool,
                IF st = "alive"
                THEN [returncode |-> 0,
                      stdout |-> <<"/", "b", "i", "n", "/">> \o comm[p]
                                     \o <<"\n">>]
                ELSE [returncode |-> 1, stdout |-> <<>>])]

\* The elements of a set of PIDs in ascending order (pgrep lists by PID).
RECURSIVE Ascending(_)
Ascending(S) ==
    IF S = {} THEN <<>>
    ELSE LET m == CHOOSE x \in S : \A y \in S : x <= y
         IN  <<m>> \o Ascending(S \ {m})

Range(f) == {f[i] : i \in DOMAIN f}

ChildView(p, st, tool) ==
    [childfile |->
        [exists |-> st # "gone",
         read   |-> IF st = "alive" THEN Ret(children[p])
                    ELSE Raise("ProcessLookupError")],
     pgrep |->
        ToolRun(tool,
                IF st = "alive" /\ children[p] # <<>>
                THEN [returncode |-> 0,
                      stdout |-> Ascending(Range(children[p]))]
                ELSE [returncode |-> 1, stdout |-> <<>>])]

\* The cwd of process p, as "/proc/<pid>/cwd" links to it.
CwdOf(p) == <<"/", ToString(p)>>

\* "/proc/<pid>/cwd": readable, unlinked while read, not permitted, or
\* absent (also: a link whose target os.path.exists cannot stat).
LinkChoices == {"ok", "vanishing", "denied", "missing"}

LinkView(p, c) ==
    [exists   |-> c # "missing",
     readlink |-> IF c = "ok" THEN Ret(CwdOf(p))
                  ELSE IF c = "denied" THEN Raise("PermissionError")
                  ELSE Raise("FileNotFoundError")]

\* "/proc/<pid>/environ": absent, not permitted, gone while read, or one of
\* these contents.
EnvChoices ==
    {"missing", "denied", "vanishing",
     "empty", "nopwd", "pwd", "pwdempty", "pwdbadbyte"}

EnvBlock(c) ==
    CASE c = "nopwd" ->
            <<"H", "O", "M", "E", "=", "/", "\\x00">>
      [] c = "pwd" ->
            <<"H", "O", "M", "E", "=", "/", "\\x00",
              "P", "W", "D", "=", "/", "e", "\\x00">>
      [] c = "pwdempty" ->
            <<"P", "W", "D", "=", "\\x00", "H", "O", "M", "E", "=", "/", "\\x00">>
      [] c = "pwdbadbyte" ->
            <<"O", "L", "D", "P", "W", "D", "=", "/", "o", "\\x00",
              "P", "W", "D", "=", "/", "\\xff", "\\x00">>
      [] OTHER -> <<>>

EnvView(c) ==
    [exists |-> c # "missing",
     read   |-> IF c = "denied" THEN Raise("PermissionError")
                ELSE IF c = "vanishing" THEN Raise("ProcessLookupError")
                ELSE Ret(EnvBlock(c))]

\* lsof: not installed, timed out, exit status 1 (no such process, nothing
\* to list), or exit status 0 with one of these outputs.
LsofChoices == {"toolmissing", "timeout", "exit1", "cwd", "nonly", "non"}

LsofStdout(c) ==
    CASE c = "cwd" ->
            <<"p", "1", "\n", "f", "c", "w", "d", "\n", "n", "/", "m", "\n">>
      [] c = "nonly" ->
            <<"p", "1", "\n", "f", "c", "w", "d", "\n", "n", "\n">>
      [] c = "non" ->
            <<"p", "1", "\n">>
      [] OTHER -> <<>>

LsofRun(c) ==
    ToolRun(IF c = "toolmissing" THEN "missing"
            ELSE IF c = "timeout" THEN "timeout" ELSE "ok",
            [returncode |-> IF c = "exit1" THEN 1 ELSE 0,
             stdout |-> LsofStdout(c)])

\* What the cwd strategies see of p.  A PID that is no running process has
\* no /proc entry and lsof finds nothing.
ProbeView(p, running, lc, ec, sc) ==
    [link |-> LinkView(p, IF running THEN lc ELSE "missing"),
     env  |-> EnvView(IF running THEN ec ELSE "missing"),
     lsof |-> LsofRun(IF running \/ sc \in {"toolmissing", "timeout"}
                      THEN sc ELSE "exit1")]

\* The answers that differ for the strategies the platform selects,
\* <<running, link, environ, lsof>>: lsof's on darwin; elsewhere a readable
\* link, a link that fails in each way, and every environ behind an absent
\* link (environ is read only after the link gave nothing).
ProbeChoices(plat) ==
    IF plat = "darwin"
    THEN {<<TRUE, "missing", "missing", sc>> : sc \in LsofChoices}
         \cup {<<FALSE, "missing", "missing", sc>> :
                    sc \in {"toolmissing", "timeout", "exit1"}}
    ELSE {<<TRUE, lc, "missing", "exit1">> : lc \in LinkChoices}
         \cup {<<TRUE, "missing", ec, "exit1">> : ec \in EnvChoices}
         \cup {<<TRUE, "denied", "denied", "exit1">>,
               <<TRUE, "vanishing", "vanishing", "exit1">>,
               <<FALSE, "missing", "missing", "exit1">>}

----------------------------------------------------------------------------
(* Initial states *)

RECURSIVE Descending(_)
Descending(S) ==
    IF S = {} THEN <<>>
    ELSE LET m == CHOOSE x \in S : \A y \in S : x >= y
         IN  <<m>> \o Descending(S \ {m})

\* Every descendant of the root has one parent, an older process that is
\* the root or a descendant itself; a PID with parent 0 is no descendant.
ParentMaps ==
    {par \in [Pids \ {RootPid} -> {0} \cup Pids] :
        \A p \in DOMAIN par :
            /\ par[p] < p
            /\ par[p] \in {0, RootPid} \/ par[par[p]] # 0}

ListingOf(par, order) ==
    [p \in Pids |->
        LET S == {c \in DOMAIN par : par[c] = p}
        IN  IF order = "asc" THEN Ascending(S) ELSE Descending(S)]

\* The child listings of process trees, as the operating system keeps them.
TreeListings ==
    {ListingOf(par, order) : par \in ParentMaps, order \in {"asc", "desc"}}

\* The PIDs met from p by following the only child n times.
RECURSIVE Chain(_, _, _)
Chain(l, p, n) ==
    IF n = 0 \/ l[p] = <<>> THEN {p}
    ELSE {p} \cup Chain(l, l[p][1], n - 1)

\* Anomalous child listings: each PID lists at most one PID, and from the
\* root the listing runs into a PID that is its own descendant.  PIDs the
\* root does not reach list nothing.
LoopListings ==
    {l \in [Pids -> {<<>>} \cup {<<q>> : q \in Pids}] :
        LET met == Chain(l, RootPid, Cardinality(Pids))
        IN  /\ \A p \in met : l[p] # <<>>
            /\ \A p \in Pids \ met : l[p] = <<>>}

CommNames == { <<"b", "a", "s", "h">>, <<"m", "c">> }

\* self.settings.get("terminal_manager") is None unless `available`;
\* get_terminal raises when `fails`, else returns the terminal of a name in
\* `terminals` and None for any other; `ptyproc` tells whether the terminal
\* has a pty process, whose pid is RootPid.
SettingsSet ==
    [available : BOOLEAN, fails : BOOLEAN, terminals : {{"1"}},
     ptyproc : BOOLEAN]

TerminalNames == {"1", "2"}

ReachesCore(st, name) ==
    st.available /\ ~st.fails /\ name \in st.terminals /\ st.ptyproc

NoCall == [pid |-> 0, running |-> FALSE, val |-> None, used |-> <<>>]

NoVisit == [pid |-> 0, commFault |-> FALSE, childFault |-> FALSE, made |-> 0]

InitRequest ==
    /\ pc = "start"
    /\ stack = <<>>
    /\ all_processes = <<>>
    /\ idx = 0
    /\ calls = <<>>
    /\ last = NoCall
    /\ strat = <<>>
    /\ cwd = None
    /\ exc = "none"
    /\ responses = <<>>
    /\ core = 0
    /\ visit = NoVisit
    /\ treeChanged = FALSE

\* The PIDs in the listing l at and below p, to n levels.
RECURSIVE Below(_, _, _)
Below(l, p, n) ==
    IF n = 0 THEN {p}
    ELSE {p} \cup UNION {Below(l, l[p][i], n - 1) : i \in 1..Len(l[p])}

\* A request that never reaches the process tree is taken with one tree,
\* and the processes outside the tree, which no call looks at, with one
\* name.
InitWith(listings) ==
    /\ InitRequest
    /\ settings \in SettingsSet
    /\ terminal_name \in TerminalNames
    /\ IF ReachesCore(settings, terminal_name)
       THEN /\ platform \in Platforms
            /\ children \in listings
            /\ comm \in [Pids -> CommNames]
            /\ \A p \in Pids \ Below(children, RootPid, Cardinality(Pids)) :
                    comm[p] = <<"b", "a", "s", "h">>
       ELSE /\ platform = "linux"
            /\ children = [p \in Pids |-> <<>>]
            /\ comm = [p \in Pids |-> <<"b", "a", "s", "h">>]

Init == InitWith(TreeListings)

InitAnomalous == InitWith(LoopListings)

----------------------------------------------------------------------------
(* TerminalCwdHandler.get *)

Response(status, error, name, path) ==
    [status |-> status, error |-> error, terminal_name |-> name, cwd |-> path]

\* Variant of GetToCore: the check of ptyproc is left out.
GetToCoreNoHandleCheck(st, name) ==
    IF ~st.available
    THEN [kind |-> "finish", pid |-> 0,
          resp |-> Response(503, "Terminal service not available", "", None)]
    ELSE IF st.fails
    THEN [kind |-> "raise", pid |-> 0,
          resp |-> Response(0, "", "", None)]
    ELSE IF name \notin st.terminals
    THEN [kind |-> "finish", pid |-> 0,
          resp |-> Response(404, "Terminal '" \o name \o "' not found", "",
                            None)]
    ELSE [kind |-> "core", pid |-> RootPid,
          resp |-> Response(0, "", "", None)]

\* get up to the call of _get_process_cwd: the response it finishes with,
\* the exception raised in it, or the pid it calls the core with.
GetToCore(st, name) ==
    IF ~st.available
    THEN [kind |-> "finish", pid |-> 0,
          resp |-> Response(503, "Terminal service not available", "", None)]
    ELSE IF st.fails
    THEN [kind |-> "raise", pid |-> 0,
          resp |-> Response(0, "", "", None)]
    ELSE IF name \notin st.terminals
    THEN [kind |-> "finish", pid |-> 0,
          resp |-> Response(404, "Terminal '" \o name \o "' not found", "",
                            None)]
    ELSE IF ~st.ptyproc
    THEN [kind |-> "finish", pid |-> 0,
          resp |-> Response(500, "Could not access terminal process", "",
                            None)]
    ELSE [kind |-> "core", pid |-> RootPid,
          resp |-> Response(0, "", "", None)]

\* get after _get_process_cwd returned.
GetAfterCore(name, path) ==
    IF path = None
    THEN Response(500, "Could not determine terminal cwd", "", None)
    ELSE Response(200, "", name, path)

\* except Exception as e: the body's exception becomes a 500 with str(e).
GetOnException(e) == Response(500, e, "", None)

GetBegin ==
    /\ pc = "start"
    /\ LET g == GetToCore(settings, terminal_name) IN
       /\ pc' = CASE g.kind = "finish" -> "done"
                  [] g.kind = "raise"  -> "raised"
                  [] OTHER             -> "collect"
       /\ responses' = IF g.kind = "finish"
                       THEN Append(responses, g.resp) ELSE responses
       /\ exc' = IF g.kind = "raise" THEN "Exception" ELSE exc
       /\ stack' = IF g.kind = "core"
                   THEN <<[pid |-> g.pid, depth |-> 0]>> ELSE stack
       /\ core' = IF g.kind = "core" THEN core + 1 ELSE core
    /\ UNCHANGED <<osVars, all_processes, idx, calls, last, strat, cwd,
                   visit, treeChanged>>

GetExcept ==
    /\ pc = "raised"
    /\ responses' = Append(responses, GetOnException(exc))
    /\ pc' = "done"
    /\ UNCHANGED <<osVars, stack, all_processes, idx, calls, last, strat, cwd,
                   exc, core, visit, treeChanged>>

----------------------------------------------------------------------------
(* _get_process_cwd: the tree walk, the sort, the loop over the candidates *)

\* Whether the process state or the tool outcome of a visit keeps the
\* command name, or the child list, from the primitive that reads it: the
\* /proc files on linux (pgrep only after an empty child list), ps and
\* pgrep elsewhere.
CommFault(plat, st, tool) ==
    st # "alive" \/ (plat # "linux" /\ tool # "ok")

ChildFault(plat, st, tool) ==
    st # "alive" \/ (plat # "linux" /\ tool # "ok")

\* What the walk's primitives answer while the tree stands still.
StableVisit(p, depth) ==
    _collect_process_tree(platform, p, depth,
                          CommView(p, "alive", "ok"),
                          ChildView(p, "alive", "ok"))

\* One call of _collect_process_tree: the call on top of the stack runs up
\* to its first recursive call, which goes on top in its place together
\* with the calls that follow it.
CollectStep ==
    /\ pc = "collect"
    /\ stack # <<>>
    /\ Head(stack).depth < RecursionLimit
    /\ \E st1 \in ProcStates, st2 \in ProcStates,
          ps \in ToolOutcomes, pg \in ToolOutcomes :
        /\ st1 # "alive" => st2 = "gone"
        /\ LET f == Head(stack)
               v == _collect_process_tree(platform, f.pid, f.depth,
                                          CommView(f.pid, st1, ps),
                                          ChildView(f.pid, st2, pg))
               rest == v.calls \o Tail(stack)
           IN  /\ all_processes' = all_processes \o v.node
               /\ IF v.exc # "ok"
                  THEN /\ exc' = v.exc
                       /\ pc' = "raised"
                       /\ stack' = <<>>
                  ELSE /\ exc' = exc
                       /\ stack' = rest
                       /\ pc' = IF rest = <<>> THEN "sort" ELSE "collect"
               /\ visit' = [pid |-> f.pid,
                            commFault |-> CommFault(platform, st1, ps),
                            childFault |-> ChildFault(platform, st2, pg),
                            made |-> Len(v.calls)]
               /\ treeChanged' =
                    (treeChanged \/ v # StableVisit(f.pid, f.depth))
    /\ UNCHANGED <<osVars, idx, calls, last, strat, cwd, responses, core>>

\* The call that would exceed the interpreter's recursion limit raises
\* RecursionError, which nothing below get catches.
CollectOverflow ==
    /\ pc = "collect"
    /\ stack # <<>>
    /\ Head(stack).depth >= RecursionLimit
    /\ exc' = "RecursionError"
    /\ pc' = "raised"
    /\ stack' = <<>>
    /\ UNCHANGED <<osVars, all_processes, idx, calls, last, strat, cwd,
                   responses, core, visit, treeChanged>>

SortStep ==
    /\ pc = "sort"
    /\ all_processes' = ListSort(all_processes)
    /\ idx' = 1
    /\ pc' = "probe"
    /\ visit' = NoVisit
    /\ UNCHANGED <<osVars, stack, calls, last, strat, cwd, exc, responses,
                   core, treeChanged>>

\* Variant of CandidateFound: the loop tests `if cwd is not None:`.
CandidateFoundNotNone(path) == path # None

\* `if cwd:` of the loop.
CandidateFound(path) == Truthy(path)

\* The bookkeeping of one call of _try_get_cwd(p) that returned r.
Called(p, running, r) ==
    /\ calls' = Append(calls, p)
    /\ last' = [pid |-> p, running |-> running, val |-> r.val,
                used |-> r.used]
    /\ strat' = strat \o [i \in 1..Len(r.used) |-> <<r.used[i].s, p>>]

\* One iteration of `for target_pid, depth, is_shell, comm in all_processes`;
\* when it returns from _get_process_cwd, get goes on to its response.
ProbeStep ==
    /\ pc = "probe"
    /\ idx <= Len(all_processes)
    /\ \E c \in ProbeChoices(platform) :
        LET p == all_processes[idx].pid
            r == _try_get_cwd(platform, ProbeView(p, c[1], c[2], c[3], c[4]))
        IN  /\ Called(p, c[1], r)
            /\ IF r.exc # "ok"
               THEN /\ exc' = r.exc
                    /\ pc' = "raised"
                    /\ UNCHANGED <<idx, cwd, responses>>
               ELSE IF CandidateFound(r.val)
               THEN /\ cwd' = r.val
                    /\ responses' =
                         Append(responses, GetAfterCore(terminal_name, r.val))
                    /\ pc' = "done"
                    /\ UNCHANGED <<idx, exc>>
               ELSE /\ idx' = idx + 1
                    /\ UNCHANGED <<pc, cwd, exc, responses>>
    /\ UNCHANGED <<osVars, stack, all_processes, core, visit, treeChanged>>

\* `return self._try_get_cwd(pid)` after the loop, and get's response to it.
Fallback ==
    /\ pc = "probe"
    /\ idx > Len(all_processes)
    /\ \E c \in ProbeChoices(platform) :
        LET r == _try_get_cwd(platform,
                              ProbeView(RootPid, c[1], c[2], c[3], c[4]))
        IN  /\ Called(RootPid, c[1], r)
            /\ IF r.exc # "ok"
               THEN /\ exc' = r.exc
                    /\ pc' = "raised"
                    /\ UNCHANGED <<cwd, responses>>
               ELSE /\ cwd' = r.val
                    /\ responses' =
                         Append(responses, GetAfterCore(terminal_name, r.val))
                    /\ pc' = "done"
                    /\ exc' = exc
    /\ UNCHANGED <<osVars, stack, all_processes, idx, core, visit, treeChanged>>

----------------------------------------------------------------------------
(* Specifications *)

Next ==
    \/ GetBegin
    \/ CollectStep
    \/ SortStep
    \/ ProbeStep
    \/ Fallback
    \/ GetExcept

Spec == Init /\ [][Next]_vars

\* The same program over child listings that no process tree has.
NextAnomalous ==
    \/ Next
    \/ CollectOverflow

SpecAnomalous == InitAnomalous /\ [][NextAnomalous]_vars

----------------------------------------------------------------------------
(* Properties *)

\* _get_process_cwd returned to get (no exception on the way).
Returned == pc = "done" /\ core = 1 /\ exc = "none"

\* all_processes holds the candidates in the order they are tried.
Ranked == core = 1 /\ pc \in {"probe", "done"} /\ idx >= 1

Shells == {i \in DOMAIN all_processes : all_processes[i].is_shell}

\* The calls of _try_get_cwd so far went to the candidates in ranked order,
\* one each, with at most the one call that follows the loop after them.
CallsInRankedOrder ==
    /\ Len(calls) <= Len(all_processes) + 1
    /\ \A i \in 1..Len(calls) :
          i <= Len(all_processes) => calls[i] = all_processes[i].pid

Count(seq, x) == Cardinality({i \in DOMAIN seq : seq[i] = x})

IsPermutation(a, b) ==
    /\ Len(a) = Len(b)
    /\ \A i \in DOMAIN a : Count(a, a[i]) = Count(b, a[i])

\* Deeper before shallower whatever the classification; at equal depth
\* shell-like before the others.
RankedOrder(seq) ==
    \A i, j \in DOMAIN seq :
        /\ seq[i].depth > seq[j].depth => i < j
        /\ (/\ seq[i].depth = seq[j].depth
            /\ seq[i].is_shell
            /\ ~seq[j].is_shell) => i < j

ExampleNodes ==
    << [pid |-> 100, depth |-> 0, is_shell |-> FALSE, comm |-> None],
       [pid |-> 101, depth |-> 1, is_shell |-> TRUE, comm |-> None],
       [pid |-> 102, depth |-> 2, is_shell |-> FALSE, comm |-> None],
       [pid |-> 103, depth |-> 3, is_shell |-> TRUE, comm |-> None] >>

C3_DeepestShellFirst ==
    (Ranked /\ calls # <<>> /\ Shells # {}) =>
        \E i \in Shells :
            /\ all_processes[i].pid = calls[1]
            /\ \A j \in Shells :
                  all_processes[j].depth <= all_processes[i].depth

\* C4: what _get_process_cwd returns is None or a non-empty absolute path,
\* so get answers 200 only with such a path and answers 500 "Could not
\* determine terminal cwd" whenever no candidate produced one.
C4_PathOrNone ==
    /\ Returned => (cwd = None \/ (cwd # <<>> /\ IsAbs(cwd)))
    /\ \A i \in DOMAIN responses :
          responses[i].status = 200 =>
              (responses[i].cwd # <<>> /\ IsAbs(responses[i].cwd))
    /\ (Returned /\ ~IsAbs(last.val)) =>
          /\ responses[1].status = 500
          /\ responses[1].error = "Could not determine terminal cwd"

RegistryPresent == settings.available

TerminalKnown == terminal_name \in settings.terminals

HandlePresent == settings.ptyproc

\* The status the claimed order of checks gives the request.
ClaimedStatus ==
    CASE ~RegistryPresent -> 503
      [] settings.fails   -> 500
      [] ~TerminalKnown   -> 404
      [] ~HandlePresent   -> 500
      [] exc # "none"     -> 500
      [] cwd = None       -> 500
      [] OTHER            -> 200

\* C5: a request gets one response and no more: 503 without a terminal
\* manager, 404 for a name the manager does not know, 500 for a terminal
\* with no pty process, 500 when the core returned None or an exception was
\* raised, else 200 with the terminal name and the cwd; and the core is
\* called only with manager, terminal and pty process all there.
C5_OneResponseInOrder ==
    /\ Len(responses) <= 1
    /\ (pc = "done") = (Len(responses) = 1)
    /\ core <= 1
    /\ (core = 1 \/ pc \in {"collect", "sort", "probe"}) =>
          (RegistryPresent /\ TerminalKnown /\ HandlePresent)
    /\ pc = "done" =>
          /\ responses[1].status = ClaimedStatus
          /\ responses[1].status = 200 =>
                /\ responses[1].terminal_name = terminal_name
                /\ responses[1].cwd = cwd
                /\ responses[1].error = ""
          /\ responses[1].status # 200 => responses[1].error # ""
          /\ core = 1 =>
                (responses[1].status = 500) = (exc # "none" \/ cwd = None)

\* A request answered 200 after the core probed two candidates.
C5_Witness ==
    /\ pc = "done"
    /\ core = 1
    /\ Len(calls) = 2
    /\ responses = <<Response(200, "", terminal_name, cwd)>>

\* C6: no exception leaves _get_process_cwd, whatever the processes and the
\* helper tools do: a visit whose command name read was hit yields the name
\* None, one whose child read was hit yields no child, a probe of a PID that
\* is no running process yields None from every strategy it runs, and the
\* query goes on.
C6_NoExceptionEscapes ==
    /\ core = 1 => (exc = "none" /\ pc # "raised")
    /\ (last.pid # 0 /\ ~last.running) =>
          /\ last.val = None
          /\ \A i \in DOMAIN last.used : last.used[i].val = None
    /\ visit.pid # 0 =>
          /\ all_processes # <<>>
          /\ all_processes[Len(all_processes)].pid = visit.pid
          /\ visit.commFault =>
                /\ all_processes[Len(all_processes)].comm = None
                /\ ~all_processes[Len(all_processes)].is_shell
          /\ visit.childFault => visit.made = 0

\* The walk was hit, a second candidate turned out to be no running
\* process, and the loop goes on to a third.
C6_Witness ==
    /\ pc = "probe"
    /\ treeChanged
    /\ Len(calls) = 2
    /\ idx <= Len(all_processes)
    /\ last.pid # 0
    /\ ~last.running
    /\ last.val = None

StableChildren(p) ==
    _get_direct_children(platform, ChildView(p, "alive", "ok")).val

\* Depth-first pre-order from p at depth d, children in the order returned.
RECURSIVE PreOrder(_, _)
RECURSIVE PreOrderEach(_, _)
PreOrder(p, d) ==
    <<[pid |-> p, depth |-> d]>> \o PreOrderEach(StableChildren(p), d + 1)

PreOrderEach(ps, d) ==
    IF ps = <<>> THEN <<>>
    ELSE PreOrder(Head(ps), d) \o PreOrderEach(Tail(ps), d)

C10_StrategiesByPlatform ==
    last.pid # 0 =>
        /\ platform = "darwin" =>
              /\ Len(last.used) = 1
              /\ last.used[1].s = "lsof"
              /\ last.val = last.used[1].val
        /\ platform # "darwin" =>
              /\ Len(last.used) \in {1, 2}
              /\ last.used[1].s = "fast"
              /\ (Len(last.used) = 2) = (last.used[1].val = None)
              /\ Len(last.used) = 2 => last.used[2].s = "environ"
              /\ last.val = IF last.used[1].val # None
                            THEN last.used[1].val
                            ELSE last.used[2].val

\* On a platform that is neither linux nor darwin the link read gave None
\* and the environment gave the path returned.
C10_Witness ==
    /\ platform = "other"
    /\ last.pid # 0
    /\ Len(last.used) = 2
    /\ last.used[1].val = None
    /\ last.val = <<"/", "e">>

\* The eight names the flag is claimed to single out.
ClaimedShellNames ==
    { <<"b", "a", "s", "h">>, <<"z", "s", "h">>, <<"f", "i", "s", "h">>,
      <<"s", "h">>, <<"d", "a", "s", "h">>, <<"k", "s", "h">>,
      <<"t", "c", "s", "h">>, <<"c", "s", "h">> }

\* Names that are none of the eight: other programs, a login shell as ps
\* shows it, another spelling, the empty name.
OtherNames ==
    { <<"p", "y", "t", "h", "o", "n">>, <<"m", "c">>,
      <<"-", "b", "a", "s", "h">>, <<"B", "a", "s", "h">>,
      <<"s", "h", "e", "l", "l">>, <<"s">>, <<>> }

\* The tuple _collect_process_tree appends for a process whose command name
\* the operating system reports as `name`, on platform plat.
NodeNamed(plat, name) ==
    _collect_process_tree(
        plat, RootPid, 0,
        [commfile |-> [exists |-> TRUE, read |-> Ret(name \o <<"\n">>)],
         ps |-> Ret([returncode |-> 0,
                     stdout |-> <<"/", "b", "i", "n", "/">> \o name
                                    \o <<"\n">>])],
        ChildView(RootPid, "gone", "ok")).node[1]

\* The tuple appended for a process whose command name cannot be read.
NodeUnnamed(plat) ==
    _collect_process_tree(
        plat, RootPid, 0,
        [commfile |-> [exists |-> FALSE, read |-> Raise("ProcessLookupError")],
         ps |-> Ret([returncode |-> 1, stdout |-> <<>>])],
        ChildView(RootPid, "gone", "ok")).node[1]

\* C11: every node in all_processes has is_shell true if and only if its
\* command name is one of bash, zsh, fish, sh, dash, ksh, tcsh, csh; a node
\* whose command name is None, or any other name, has is_shell false.  The
\* same for the tuple built from each of the eight names, from names that
\* are none of them, and from an unreadable name, on every platform (a fact
\* of the code alone, evaluated where the request starts).
C11_ShellIffKnownName ==
    /\ \A i \in DOMAIN all_processes :
          /\ all_processes[i].is_shell
                <=> all_processes[i].comm \in ClaimedShellNames
          /\ all_processes[i].comm = None => ~all_processes[i].is_shell
    /\ pc = "start" => \A plat \in Platforms :
          /\ \A name \in ClaimedShellNames :
                /\ NodeNamed(plat, name).comm = name
                /\ NodeNamed(plat, name).is_shell
          /\ \A name \in OtherNames : ~NodeNamed(plat, name).is_shell
          /\ NodeUnnamed(plat).comm = None
          /\ ~NodeUnnamed(plat).is_shell

\* The walk is over and has collected a bash node flagged as a shell, an mc
\* node not flagged and a node without a command name not flagged.
C11_Witness ==
    /\ pc = "sort"
    /\ \E i, j, k \in DOMAIN all_processes :
          /\ all_processes[i].comm = <<"b", "a", "s", "h">>
          /\ all_processes[i].is_shell
          /\ all_processes[j].comm = <<"m", "c">>
          /\ ~all_processes[j].is_shell
          /\ all_processes[k].comm = None
          /\ ~all_processes[k].is_shell

====
